---- MODULE Spec2Model ----
(***************************************************************************)
(* A model of dicom_monitor.py: the watchdog event handler with its        *)
(* blocking stability poll, the periodic drain thread that reads and       *)
(* routes the stabilized files, the retention sweeper, and main's shutdown *)
(* sequence.                                                               *)
(***************************************************************************)
EXTENDS Integers, Sequences, FiniteSets, TLC

(***************************************************************************)
(* Strings are sequences of one-character strings, so that str.lower, the  *)
(* regular expression of normalize_string and str.endswith are computed.   *)
(***************************************************************************)
AsciiUpper == <<"A","B","C","D","E","F","G","H","I","J","K","L","M",
                "N","O","P","Q","R","S","T","U","V","W","X","Y","Z">>

AsciiLower == <<"a","b","c","d","e","f","g","h","i","j","k","l","m",
                "n","o","p","q","r","s","t","u","v","w","x","y","z">>

AsciiDigit == <<"0","1","2","3","4","5","6","7","8","9">>

\* The letters outside ASCII of the model: U+00C9 and its lower case U+00E9.
UpperEAcute == "U+00C9"

LowerEAcute == "U+00E9"

Range(s) == {s[i] : i \in DOMAIN s}

\* The character class [a-zA-Z0-9] of the regular expression.
IsAsciiAlnum(c) == c \in Range(AsciiUpper) \cup Range(AsciiLower) \cup Range(AsciiDigit)

\* str.lower() on one character: Unicode aware.
LowerChar(c) ==
    IF c \in Range(AsciiUpper)
    THEN AsciiLower[CHOOSE i \in DOMAIN AsciiUpper : AsciiUpper[i] = c]
    ELSE IF c = UpperEAcute THEN LowerEAcute ELSE c

\* str.lower()
lower(s) == [i \in DOMAIN s |-> LowerChar(s[i])]

\* re.sub(r"[^a-zA-Z0-9]", "", s)
re_sub_non_alnum(s) == SelectSeq(s, IsAsciiAlnum)

normalize_string_KeepCase(s) == re_sub_non_alnum(s)

normalize_string(s) == lower(re_sub_non_alnum(s))

\* s.endswith(suffix)
endswith(s, suffix) ==
    /\ Len(s) >= Len(suffix)
    /\ SubSeq(s, Len(s) - Len(suffix) + 1, Len(s)) = suffix

DotDcm == <<".", "d", "c", "m">>

(***************************************************************************)
(* The file system the program runs on: a watched root with one            *)
(* sub-directory, two image files and one file of another format.          *)
(***************************************************************************)
NoPath == "none"

Dirs == {"/d", "/d/s", "/e"}

DcmFiles == {"/d/1.dcm", "/d/s/2.DCM"}

OtherFiles == {"/d/s/n.txt"}

Files == DcmFiles \cup OtherFiles

\* os.path.dirname
dirname(p) ==
    CASE p = "/d/1.dcm" -> "/d"
      [] p = "/d/s/2.DCM" -> "/d/s"
      [] p = "/d/s/n.txt" -> "/d/s"
      [] p = "/d/s" -> "/d"
      [] OTHER -> "/"

\* os.path.basename, as characters
basename(p) ==
    CASE p = "/d/1.dcm" -> <<"1", ".", "d", "c", "m">>
      [] p = "/d/s/2.DCM" -> <<"2", ".", "D", "C", "M">>
      [] p = "/d/s/n.txt" -> <<"n", ".", "t", "x", "t">>
      [] p = "/d/s" -> <<"s">>
      [] p = "/d" -> <<"d">>
      [] OTHER -> <<"e">>

\* The datasets a file can hold; "corrupt" is what pydicom.dcmread rejects.
Corrupt == "corrupt"

StudyDescriptionOf(c) ==
    CASE c = "ds_chest" -> <<"c","h","e","s","t"," "," "," ","x","-","r","a","y">>
      [] c = "ds_brain" -> <<"B","R","A","I","N">>
      [] c = "ds_blank" -> <<" ", "-">>
      [] OTHER -> <<>>

\* hasattr(ds, 'StudyDescription')
HasStudyDescription(c) == c \in {"ds_chest", "ds_brain", "ds_blank"}

Contents == {Corrupt, "ds_chest", "ds_brain", "ds_blank", "ds_absent"}

\* settings.json, loaded by load_settings
configs ==
    << [watch_dir |-> "/d",
        study_description |-> <<"C","h","e","s","t"," ","X","-","R","a","y">>,
        api_endpoint |-> "http://h/a"],
       [watch_dir |-> "/e",
        study_description |-> <<"c","h","e","s","t","x","r","a","y","!">>,
        api_endpoint |-> "http://h/b"],
       [watch_dir |-> "/d",
        study_description |-> <<"B","r","a","i","n">>,
        api_endpoint |-> "http://h/c"] >>

\* The same settings with one more rule, whose study_description holds no
\* letter and no digit.
configs_blank ==
    Append(configs, [watch_dir |-> "/e",
                     study_description |-> <<"-", " ", "-">>,
                     api_endpoint |-> "http://h/d"])

watch_dirs == {configs[i].watch_dir : i \in DOMAIN configs}

\* The arguments of the program, in ticks of the model's clocks.
check_interval == 1

stable_duration == 2

max_age_days == 1

\* Bounds of the model: the events the observer's queue holds, where the
\* counters of the history stop counting, and the last tick of the clock.
MaxEvents == 2

MaxCount == 2

MaxTime == 3

\* The longest string normalize_string is tried on, but for the example strings.
MaxStrLen == 3

\* The sizes the writers of the model give a file.
Sizes == {1, 2}

\* The path whose history the model records.
Tracked == "/d/1.dcm"

\* What requests.post can do: answer with a status, or raise.
Ok200 == [raises |-> FALSE, status_code |-> 200]

Responses ==
    { Ok200,
      [raises |-> FALSE, status_code |-> 404],
      [raises |-> TRUE, status_code |-> 0] }

NoCall == [file_path |-> NoPath, read_ok |-> FALSE, study_description |-> <<>>,
           calls |-> <<>>, log |-> <<>>, raised |-> FALSE]

VARIABLES
    \* the file system and the wall clock
    exists, dirs, size, content, mtime, clock,
    \* the observer thread: watchdog's queue and the handler it is running
    event_queue, w_pc, w_path, previous_size, stable_time,
    \* DicomFileHandler
    self_configs, modified_files, lock, stop_event,
    \* the api thread
    p_pc, files_to_process, batch_taken, batch_handled, handled,
    \* of the path Tracked: its write episodes (a write after the path was
    \* added to the set starts a new one), and since its last write the
    \* additions to the set and the POSTs answered 200
    episode, enqueues, posts_ok,
    \* DicomFileDeleter and the delete thread
    deleter_stop_event, s_pc, s_now, s_walk, s_files, s_log,
    \* main
    m_pc, observer_stopped,
    \* the inputs and results of normalize_string
    ns_s, ns_t, ns_key_s, ns_key_t, ns_key_key, ns_pc

fs_vars == <<exists, dirs, size, content, mtime, clock>>

watcher_vars == <<event_queue, w_pc, w_path, previous_size, stable_time>>

handler_vars == <<modified_files, lock, stop_event>>

api_vars == <<p_pc, files_to_process, batch_taken, batch_handled, handled>>

history_vars == <<episode, enqueues, posts_ok>>

sweeper_vars == <<deleter_stop_event, s_pc, s_now, s_walk, s_files, s_log>>

main_vars == <<m_pc, observer_stopped>>

ns_vars == <<ns_s, ns_t, ns_key_s, ns_key_t, ns_key_key, ns_pc>>

vars == <<fs_vars, watcher_vars, self_configs, handler_vars, api_vars,
          history_vars, sweeper_vars, main_vars, ns_vars>>

Bump(n) == IF n < MaxCount THEN n + 1 ELSE MaxCount

RECURSIVE BumpBy(_, _)
BumpBy(n, k) == IF k = 0 THEN n ELSE BumpBy(Bump(n), k - 1)

(***************************************************************************)
(* The environment: writers, other processes removing files, the clock,    *)
(* and watchdog's observer turning writes into queued events.              *)
(***************************************************************************)
ModifiedEvent(p) == [event_type |-> "modified", src_path |-> p, is_directory |-> FALSE]

\* watchdog's event queue drops an event equal to the last one still queued.
put(q, ev) == IF q # <<>> /\ q[Len(q)] = ev THEN q ELSE Append(q, ev)

\* The queue after a change of f: a stopped observer emits nothing.
Queued(q, f) == IF observer_stopped THEN q ELSE put(q, ModifiedEvent(f))

\* A writer creates f or changes its size; the observer queues a modified event.
Write(f, sz, c) ==
    /\ dirname(f) \in dirs
    /\ f \in exists => sz # size[f]
    /\ Len(Queued(event_queue, f)) <= MaxEvents
    /\ exists' = exists \cup {f}
    /\ size' = [size EXCEPT ![f] = sz]
    /\ content' = [content EXCEPT ![f] = c]
    /\ mtime' = [mtime EXCEPT ![f] = clock]
    /\ event_queue' = Queued(event_queue, f)
    /\ IF f = Tracked
       THEN /\ episode' = IF episode = 0 \/ enqueues > 0 THEN Bump(episode) ELSE episode
            /\ enqueues' = 0
            /\ posts_ok' = 0
       ELSE UNCHANGED history_vars
    /\ UNCHANGED <<self_configs, dirs, clock, w_pc, w_path, previous_size, stable_time,
                   handler_vars, api_vars, sweeper_vars, main_vars, ns_vars>>

CreatedEvent(p) == [event_type |-> "created", src_path |-> p, is_directory |-> FALSE]

\* A file appears whole (it is moved or linked into the directory): the
\* observer queues a created event and no modified event follows.
Create(f, sz) ==
    /\ f \notin exists
    /\ dirname(f) \in dirs
    /\ ~observer_stopped
    /\ Len(put(event_queue, CreatedEvent(f))) <= MaxEvents
    /\ exists' = exists \cup {f}
    /\ size' = [size EXCEPT ![f] = sz]
    /\ content' = [content EXCEPT ![f] = "ds_brain"]
    /\ mtime' = [mtime EXCEPT ![f] = clock]
    /\ event_queue' = put(event_queue, CreatedEvent(f))
    /\ IF f = Tracked
       THEN /\ episode' = Bump(episode)
            /\ enqueues' = 0
            /\ posts_ok' = 0
       ELSE UNCHANGED history_vars
    /\ UNCHANGED <<self_configs, dirs, clock, w_pc, w_path, previous_size, stable_time,
                   handler_vars, api_vars, sweeper_vars, main_vars, ns_vars>>

\* What os.remove leaves of the file system.
Removed(f) ==
    /\ exists' = exists \ {f}
    /\ size' = [size EXCEPT ![f] = 0]
    /\ content' = [content EXCEPT ![f] = Corrupt]
    /\ mtime' = [mtime EXCEPT ![f] = 0]

\* Another process removes f.
ExternalDelete(f) ==
    /\ f \in exists
    /\ Removed(f)
    /\ UNCHANGED <<self_configs, dirs, clock, watcher_vars, handler_vars, api_vars,
                   history_vars, sweeper_vars, main_vars, ns_vars>>

\* Time passes.
Tick ==
    /\ clock < MaxTime
    /\ clock' = clock + 1
    /\ UNCHANGED <<self_configs, exists, dirs, size, content, mtime, watcher_vars, handler_vars,
                   api_vars, history_vars, sweeper_vars, main_vars, ns_vars>>

(***************************************************************************)
(* The observer thread running DicomFileHandler.on_modified.               *)
(***************************************************************************)
\* event.src_path.lower().endswith('.dcm')
IsDcmPath(p) == endswith(lower(basename(p)), DotDcm)

\* The guard of on_modified; watchdog calls on_modified for modified events only.
on_modified_filter(ev) ==
    /\ ev.event_type = "modified"
    /\ ~ev.is_directory
    /\ IsDcmPath(ev.src_path)

\* The observer takes the next event and calls the handler, which goes on to
\* `with self.lock` when the event passes the guard. A stopped observer ends
\* its thread instead of taking an event.
on_modified_enter ==
    /\ w_pc = "idle"
    /\ ~observer_stopped
    /\ event_queue # <<>>
    /\ event_queue' = Tail(event_queue)
    /\ IF on_modified_filter(Head(event_queue))
       THEN /\ w_pc' = "lock"
            /\ w_path' = Head(event_queue).src_path
       ELSE UNCHANGED <<w_pc, w_path>>
    /\ UNCHANGED <<self_configs, fs_vars, previous_size, stable_time, handler_vars, api_vars,
                   history_vars, sweeper_vars, main_vars, ns_vars>>

\* is_file_stable has returned True: modified_files.add, and the lock is released.
AddStable(f) ==
    /\ modified_files' = modified_files \cup {f}
    /\ enqueues' = IF f = Tracked /\ f \notin modified_files
                   THEN Bump(enqueues) ELSE enqueues
    /\ lock' = "free"
    /\ w_pc' = "idle"
    /\ w_path' = NoPath
    /\ previous_size' = -1
    /\ stable_time' = 0

\* The lock is taken and is_file_stable starts: previous_size = -1, stable_time = 0.
on_modified_lock ==
    /\ w_pc = "lock"
    /\ lock = "free"
    /\ IF 0 < stable_duration
       THEN /\ lock' = "watcher"
            /\ w_pc' = "poll"
            /\ previous_size' = -1
            /\ stable_time' = 0
            /\ UNCHANGED <<w_path, modified_files, enqueues>>
       ELSE AddStable(w_path)
    /\ UNCHANGED <<self_configs, fs_vars, event_queue, stop_event, api_vars, episode, posts_ok,
                   sweeper_vars, main_vars, ns_vars>>

is_file_stable_next_NoReset(cur, prev, st) == st + check_interval

\* One pass of the loop of is_file_stable: the new stable_time.
is_file_stable_next(cur, prev, st) ==
    IF cur # prev THEN 0 ELSE st + check_interval

\* One poll of is_file_stable, with the sleep after it. os.path.getsize raises
\* when the file is gone: the exception leaves on_modified (the lock is released
\* by the with statement) and ends the observer thread that called it.
is_file_stable_poll ==
    /\ w_pc = "poll"
    /\ IF w_path \notin exists
       THEN /\ lock' = "free"
            /\ w_pc' = "dead"
            /\ w_path' = NoPath
            /\ previous_size' = -1
            /\ stable_time' = 0
            /\ UNCHANGED <<modified_files, enqueues>>
       ELSE LET st == is_file_stable_next(size[w_path], previous_size, stable_time)
            IN IF st < stable_duration
               THEN /\ previous_size' = size[w_path]
                    /\ stable_time' = st
                    /\ UNCHANGED <<w_pc, w_path, lock, modified_files, enqueues>>
               ELSE AddStable(w_path)
    /\ UNCHANGED <<self_configs, fs_vars, event_queue, stop_event, api_vars, episode, posts_ok,
                   sweeper_vars, main_vars, ns_vars>>

(***************************************************************************)
(* The api thread: process_files_periodically, handle_dicom_file and       *)
(* send_to_api.                                                            *)
(***************************************************************************)
send_to_api_Raises(file_path, api_endpoint, response) ==
    [api_endpoint |-> api_endpoint,
     response |-> response,
     level |-> IF ~response.raises /\ response.status_code = 200 THEN "info" ELSE "error",
     raised |-> response.raises]

send_to_api_AnyStatus(file_path, api_endpoint, response) ==
    [api_endpoint |-> api_endpoint,
     response |-> response,
     level |-> IF ~response.raises THEN "info" ELSE "error",
     raised |-> FALSE]

\* One call of send_to_api: the POST, its answer, the line logged, and whether
\* an exception leaves the call (the try statement catches every Exception).
send_to_api(file_path, api_endpoint, response) ==
    [api_endpoint |-> api_endpoint,
     response |-> response,
     level |-> IF ~response.raises /\ response.status_code = 200 THEN "info" ELSE "error",
     raised |-> FALSE]

rule_matches_OwnWatchDir(file_path, norm_study_description, config) ==
    /\ norm_study_description = normalize_string(config.study_description)
    /\ config.watch_dir = dirname(file_path)

\* if norm_study_description == norm_config_study_description
rule_matches(file_path, norm_study_description, config) ==
    norm_study_description = normalize_string(config.study_description)

\* The loop over self.configs of handle_dicom_file, from rule i on: the calls of
\* send_to_api made, ending at the first call an exception leaves.
RECURSIVE dispatch(_, _, _, _)
dispatch(file_path, norm_study_description, i, responses) ==
    IF i > Len(self_configs) THEN <<>>
    ELSE IF rule_matches(file_path, norm_study_description, self_configs[i])
         THEN LET call == send_to_api(file_path, self_configs[i].api_endpoint, responses[i])
                  this == [config |-> i] @@ call
              IN IF call.raised THEN <<this>>
                 ELSE <<this>> \o dispatch(file_path, norm_study_description, i + 1, responses)
         ELSE dispatch(file_path, norm_study_description, i + 1, responses)

\* pydicom.dcmread(file_path) returns a dataset
dcmread_ok(file_path) == file_path \in exists /\ content[file_path] # Corrupt

study_description_of_NoDefault(file_path) ==
    IF HasStudyDescription(content[file_path])
    THEN StudyDescriptionOf(content[file_path]) ELSE <<"N", "o", "n", "e">>

\* getattr(ds, 'StudyDescription', '')
study_description_of(file_path) ==
    IF HasStudyDescription(content[file_path])
    THEN StudyDescriptionOf(content[file_path]) ELSE <<>>

handle_dicom_file_NoCatch(file_path, responses) ==
    IF ~dcmread_ok(file_path)
    THEN [file_path |-> file_path, read_ok |-> FALSE, study_description |-> <<>>,
          calls |-> <<>>, log |-> <<>>, raised |-> TRUE]
    ELSE [file_path |-> file_path, read_ok |-> TRUE,
          study_description |-> study_description_of(file_path),
          calls |-> dispatch(file_path, normalize_string(study_description_of(file_path)),
                             1, responses),
          log |-> <<>>, raised |-> FALSE]

\* One call of handle_dicom_file: whether the file was read, the calls of
\* send_to_api made, the line its own except clause logs, and whether an
\* exception leaves the call.
handle_dicom_file(file_path, responses) ==
    IF ~dcmread_ok(file_path)
    THEN [file_path |-> file_path, read_ok |-> FALSE, study_description |-> <<>>,
          calls |-> <<>>, log |-> <<"Failed to process">>, raised |-> FALSE]
    ELSE LET calls == dispatch(file_path,
                               normalize_string(study_description_of(file_path)),
                               1, responses)
         IN [file_path |-> file_path, read_ok |-> TRUE,
             study_description |-> study_description_of(file_path),
             calls |-> calls,
             log |-> IF calls # <<>> /\ calls[Len(calls)].raised
                     THEN <<"Failed to process">> ELSE <<>>,
             raised |-> FALSE]

\* while not self.stop_event.is_set()
process_loop_check ==
    /\ p_pc = "loop"
    /\ p_pc' = IF stop_event THEN "done" ELSE "lock"
    /\ UNCHANGED <<self_configs, fs_vars, watcher_vars, handler_vars, files_to_process,
                   batch_taken, batch_handled, handled, history_vars,
                   sweeper_vars, main_vars, ns_vars>>

process_acquire_NoLock ==
    /\ p_pc = "lock"
    /\ p_pc' = "take"
    /\ UNCHANGED <<self_configs, fs_vars, watcher_vars, handler_vars, files_to_process,
                   batch_taken, batch_handled, handled, history_vars,
                   sweeper_vars, main_vars, ns_vars>>

\* with self.lock: entered
process_acquire ==
    /\ p_pc = "lock"
    /\ lock = "free"
    /\ lock' = "pipeline"
    /\ p_pc' = "take"
    /\ UNCHANGED <<self_configs, fs_vars, watcher_vars, modified_files, stop_event,
                   files_to_process, batch_taken, batch_handled, handled,
                   history_vars, sweeper_vars, main_vars, ns_vars>>

\* The orders list(a_set) can give.
Orders(S) == {q \in [1..Cardinality(S) -> S] : Range(q) = S}

\* files_to_process = list(self.modified_files), inside `with self.lock`
process_take(order) ==
    /\ p_pc = "take"
    /\ order \in Orders(modified_files)
    /\ files_to_process' = order
    /\ p_pc' = "clear"
    /\ batch_taken' = modified_files
    /\ batch_handled' = {}
    /\ handled' = NoCall
    /\ UNCHANGED <<self_configs, fs_vars, watcher_vars, handler_vars, history_vars,
                   sweeper_vars, main_vars, ns_vars>>

process_clear_KeepsLock ==
    /\ p_pc = "clear"
    /\ modified_files' = {}
    /\ p_pc' = "batch"
    /\ UNCHANGED <<self_configs, fs_vars, watcher_vars, lock, stop_event, files_to_process,
                   batch_taken, batch_handled, handled, history_vars,
                   sweeper_vars, main_vars, ns_vars>>

\* self.modified_files.clear(), and the with statement releases the lock.
process_clear ==
    /\ p_pc = "clear"
    /\ modified_files' = {}
    /\ lock' = "free"
    /\ p_pc' = "batch"
    /\ UNCHANGED <<self_configs, fs_vars, watcher_vars, stop_event, files_to_process,
                   batch_taken, batch_handled, handled, history_vars,
                   sweeper_vars, main_vars, ns_vars>>

\* The POSTs of a call of handle_dicom_file that were answered 200.
OkCount(h) == Len(SelectSeq(h.calls, LAMBDA c : c.response = Ok200))

\* for file_path in files_to_process: self.handle_dicom_file(file_path), one
\* file per step; an exception leaving the call would end the thread.
process_handle(responses) ==
    /\ p_pc = "batch"
    /\ files_to_process # <<>>
    /\ LET file_path == Head(files_to_process)
           h == handle_dicom_file(file_path, responses)
       IN /\ handled' = h
          /\ batch_handled' = batch_handled \cup {file_path}
          /\ posts_ok' = IF file_path = Tracked
                         THEN BumpBy(posts_ok, OkCount(h)) ELSE posts_ok
          /\ IF h.raised
             THEN /\ p_pc' = "crashed"
                  /\ UNCHANGED files_to_process
             ELSE /\ files_to_process' = Tail(files_to_process)
                  /\ UNCHANGED p_pc
    /\ UNCHANGED <<self_configs, fs_vars, watcher_vars, handler_vars, batch_taken, episode,
                   enqueues, sweeper_vars, main_vars, ns_vars>>

\* time.sleep(self.api_check_interval), after the last file of the batch
process_sleep ==
    /\ p_pc = "batch"
    /\ files_to_process = <<>>
    /\ p_pc' = "loop"
    /\ batch_taken' = {}
    /\ batch_handled' = {}
    /\ handled' = NoCall
    /\ UNCHANGED <<self_configs, fs_vars, watcher_vars, handler_vars, files_to_process,
                   history_vars, sweeper_vars, main_vars, ns_vars>>

(***************************************************************************)
(* The program after construction, and the ingestion subsystem.            *)
(***************************************************************************)
InitThreads ==
    /\ event_queue = <<>>
    /\ w_pc = "idle"
    /\ w_path = NoPath
    /\ previous_size = -1
    /\ stable_time = 0
    /\ lock = "free"
    /\ stop_event = FALSE
    /\ p_pc = "loop"
    /\ files_to_process = <<>>
    /\ batch_taken = {}
    /\ batch_handled = {}
    /\ handled = NoCall
    /\ episode = 0
    /\ enqueues = 0
    /\ posts_ok = 0
    /\ deleter_stop_event = FALSE
    /\ s_pc = "start"
    /\ s_now = 0
    /\ s_walk = <<>>
    /\ s_files = <<>>
    /\ s_log = {}
    /\ m_pc = "run"
    /\ observer_stopped = FALSE

InitNoStrings ==
    /\ ns_s = <<>>
    /\ ns_t = <<>>
    /\ ns_key_s = <<>>
    /\ ns_key_t = <<>>
    /\ ns_key_key = <<>>
    /\ ns_pc = "off"

\* The watched directories exist and hold no file yet.
Init ==
    /\ exists = {}
    /\ dirs = Dirs
    /\ size = [f \in Files |-> 0]
    /\ content = [f \in Files |-> Corrupt]
    /\ mtime = [f \in Files |-> 0]
    /\ clock = 0
    /\ InitThreads
    /\ self_configs = configs
    /\ modified_files = {}
    /\ InitNoStrings

Watcher == on_modified_enter \/ on_modified_lock \/ is_file_stable_poll

Pipeline(R) ==
    \/ process_loop_check
    \/ process_acquire
    \/ \E order \in Orders(modified_files) : process_take(order)
    \/ process_clear
    \/ \E responses \in [DOMAIN self_configs -> R] : process_handle(responses)
    \/ process_sleep

\* The ingestion subsystem: writers of image files with a readable dataset,
\* the observer thread and the api thread, every POST answered 200.
Next ==
    \/ \E f \in DcmFiles, sz \in Sizes : Write(f, sz, "ds_brain")
    \/ \E f \in DcmFiles : ExternalDelete(f)
    \/ Watcher
    \/ Pipeline({Ok200})

Spec == Init /\ [][Next]_vars

(***************************************************************************)
(* The dispatch of a drained batch: the api thread alone, started with any *)
(* set of stabilized paths over any files, every answer of an endpoint.    *)
(***************************************************************************)
InitDispatch ==
    /\ dirs = Dirs
    /\ exists \in SUBSET DcmFiles
    /\ content \in [Files -> Contents]
    /\ \A f \in Files \ exists : content[f] = Corrupt
    /\ size = [f \in Files |-> IF f \in exists THEN 1 ELSE 0]
    /\ mtime = [f \in Files |-> 0]
    /\ clock = 0
    /\ InitThreads
    /\ self_configs \in {configs, configs_blank}
    /\ modified_files \in SUBSET DcmFiles
    /\ InitNoStrings

NextDispatch ==
    \/ \E f \in DcmFiles : ExternalDelete(f)
    \/ Pipeline(Responses)

SpecDispatch == InitDispatch /\ [][NextDispatch]_vars

(***************************************************************************)
(* The delete thread: DicomFileDeleter.delete_old_files and delete_file.   *)
(***************************************************************************)
\* os.listdir(d), as files and sub-directories
FilesIn(d) == {f \in exists : dirname(f) = d}

SubdirsIn(d) == {c \in dirs : dirname(c) = d}

\* while not self.stop_event.is_set(): now = datetime.now(), and the walk of
\* the watched directories starts.
delete_old_files_begin(order) ==
    /\ s_pc = "start"
    /\ order \in Orders(watch_dirs)
    /\ IF deleter_stop_event
       THEN /\ s_pc' = "done"
            /\ UNCHANGED <<s_now, s_walk, s_files, s_log>>
       ELSE /\ s_pc' = "walk"
            /\ s_now' = clock
            /\ s_walk' = order
            /\ s_files' = <<>>
            /\ s_log' = {}
    /\ UNCHANGED <<self_configs, fs_vars, watcher_vars, handler_vars, api_vars, history_vars,
                   deleter_stop_event, main_vars, ns_vars>>

\* os.walk goes on to the next directory: it lists the directory (a directory
\* that is gone is passed over) and will descend into the sub-directories
\* listed before it goes on to the directories left.
walk_next(files, subdirs) ==
    /\ s_pc = "walk"
    /\ s_files = <<>>
    /\ s_walk # <<>>
    /\ IF Head(s_walk) \in dirs
       THEN /\ files \in Orders(FilesIn(Head(s_walk)))
            /\ subdirs \in Orders(SubdirsIn(Head(s_walk)))
            /\ s_files' = files
            /\ s_walk' = subdirs \o Tail(s_walk)
       ELSE /\ s_files' = <<>>
            /\ s_walk' = Tail(s_walk)
    /\ UNCHANGED <<self_configs, fs_vars, watcher_vars, handler_vars, api_vars, history_vars,
                   deleter_stop_event, s_pc, s_now, s_log, main_vars, ns_vars>>

\* now - modified_time > timedelta(days=self.max_age_days)
is_old(now, modified_time) == now - modified_time > max_age_days

prune_parent_Cascade(file_path) ==
    LET parent == dirname(file_path)
        grandparent == dirname(parent)
    IN IF FilesIn(parent) \ {file_path} = {} /\ SubdirsIn(parent) = {}
       THEN {parent} \cup (IF FilesIn(grandparent) = {} /\ SubdirsIn(grandparent) = {parent}
                           THEN {grandparent} ELSE {})
       ELSE {}

prune_parent_Always(file_path) == {dirname(file_path)}

\* if not os.listdir(parent_dir): os.rmdir(parent_dir), after file_path was
\* removed: the directories delete_file removes.
prune_parent(file_path) ==
    IF FilesIn(dirname(file_path)) \ {file_path} = {} /\ SubdirsIn(dirname(file_path)) = {}
    THEN {dirname(file_path)} ELSE {}

\* delete_file: os.remove succeeds or raises (then the error is logged and
\* nothing else is done), and the parent is removed when it is left empty.
delete_file(file_path, remove_ok) ==
    IF remove_ok
    THEN /\ Removed(file_path)
         /\ dirs' = dirs \ prune_parent(file_path)
         /\ s_log' = s_log
                \cup {[op |-> "deleted", path |-> file_path,
                       age |-> s_now - mtime[file_path]]}
                \cup {[op |-> "rmdir", path |-> d, age |-> 0] : d \in prune_parent(file_path)}
    ELSE /\ s_log' = s_log \cup {[op |-> "delete_error", path |-> file_path, age |-> 0]}
         /\ UNCHANGED <<exists, dirs, size, content, mtime>>

\* The body of the innermost loop of delete_old_files for the next file name
\* listed. os.path.getmtime raises when the file is gone: the except clause
\* around the walk logs it, and the walk is over.
sweep_file(remove_ok) ==
    /\ s_pc = "walk"
    /\ s_files # <<>>
    /\ LET file_path == Head(s_files)
       IN IF ~IsDcmPath(file_path)
          THEN /\ remove_ok
               /\ s_files' = Tail(s_files)
               /\ UNCHANGED <<exists, dirs, size, content, mtime, s_walk, s_log>>
          ELSE IF file_path \notin exists
          THEN /\ remove_ok
               /\ s_files' = <<>>
               /\ s_walk' = <<>>
               /\ s_log' = s_log \cup {[op |-> "sweep_error", path |-> file_path, age |-> 0]}
               /\ UNCHANGED <<exists, dirs, size, content, mtime>>
          ELSE IF is_old(s_now, mtime[file_path])
          THEN /\ delete_file(file_path, remove_ok)
               /\ s_files' = Tail(s_files)
               /\ UNCHANGED s_walk
          ELSE /\ remove_ok
               /\ s_files' = Tail(s_files)
               /\ UNCHANGED <<exists, dirs, size, content, mtime, s_walk, s_log>>
    /\ UNCHANGED <<self_configs, clock, watcher_vars, handler_vars, api_vars, history_vars,
                   deleter_stop_event, s_pc, s_now, main_vars, ns_vars>>

\* The walk is over: self.stop_event.wait(self.check_interval) is entered.
sweep_end ==
    /\ s_pc = "walk"
    /\ s_files = <<>>
    /\ s_walk = <<>>
    /\ s_pc' = "wait"
    /\ UNCHANGED <<self_configs, fs_vars, watcher_vars, handler_vars, api_vars, history_vars,
                   deleter_stop_event, s_now, s_walk, s_files, s_log, main_vars, ns_vars>>

\* The wait returns, at its timeout or because the event was set.
sweep_wait ==
    /\ s_pc = "wait"
    /\ s_pc' = "start"
    /\ UNCHANGED <<self_configs, fs_vars, watcher_vars, handler_vars, api_vars, history_vars,
                   deleter_stop_event, s_now, s_walk, s_files, s_log, main_vars, ns_vars>>

Sweeper ==
    \/ \E order \in Orders(watch_dirs) : delete_old_files_begin(order)
    \/ /\ s_walk # <<>>
       /\ \E files \in Orders(FilesIn(Head(s_walk))), subdirs \in Orders(SubdirsIn(Head(s_walk))) :
             walk_next(files, subdirs)
    \/ \E remove_ok \in BOOLEAN : sweep_file(remove_ok)
    \/ sweep_end
    \/ sweep_wait

\* A file system the program can be started on or find at a sweep: the
\* directories of every existing entry exist, and files have any age.
InitSweep ==
    /\ dirs \in {Dirs, Dirs \ {"/d/s"}}
    /\ exists \in SUBSET {f \in Files : dirname(f) \in dirs}
    /\ mtime \in [Files -> 0..(MaxTime - 1)]
    /\ \A f \in Files : (f \notin exists \/ f \notin DcmFiles) => mtime[f] = 0
    /\ size = [f \in Files |-> IF f \in exists THEN 1 ELSE 0]
    /\ content = [f \in Files |-> IF f \in exists /\ f \in DcmFiles THEN "ds_brain" ELSE Corrupt]
    /\ clock = MaxTime - 1
    /\ InitThreads
    /\ self_configs = configs
    /\ modified_files = {}
    /\ InitNoStrings

NextSweep ==
    \/ Sweeper
    \/ \E f \in Files : ExternalDelete(f)
    \/ Tick

SpecSweep == InitSweep /\ [][NextSweep]_vars

(***************************************************************************)
(* main: the interrupt, the stops and the joins; and every thread of the   *)
(* program together, each taking steps as long as it can.                  *)
(***************************************************************************)
\* KeyboardInterrupt: observer.stop(), then event_handler.stop() sets
\* stop_event and waits in api_thread.join().
main_interrupt ==
    /\ m_pc = "run"
    /\ observer_stopped' = TRUE
    /\ stop_event' = TRUE
    /\ m_pc' = "join_api"
    /\ UNCHANGED <<self_configs, fs_vars, watcher_vars, modified_files, lock, api_vars,
                   history_vars, sweeper_vars, ns_vars>>

\* api_thread.join() returns; deleter.stop(); delete_thread.join() is entered.
main_join_api ==
    /\ m_pc = "join_api"
    /\ p_pc \in {"done", "crashed"}
    /\ deleter_stop_event' = TRUE
    /\ m_pc' = "join_delete"
    /\ UNCHANGED <<self_configs, fs_vars, watcher_vars, handler_vars, api_vars, history_vars,
                   s_pc, s_now, s_walk, s_files, s_log, observer_stopped, ns_vars>>

\* delete_thread.join() returns; observer.join() is entered.
main_join_delete ==
    /\ m_pc = "join_delete"
    /\ s_pc = "done"
    /\ m_pc' = "join_observer"
    /\ UNCHANGED <<self_configs, fs_vars, watcher_vars, handler_vars, api_vars, history_vars,
                   sweeper_vars, observer_stopped, ns_vars>>

\* observer.join() returns, and main ends.
main_join_observer ==
    /\ m_pc = "join_observer"
    /\ w_pc \in {"stopped", "dead"}
    /\ m_pc' = "exit"
    /\ UNCHANGED <<self_configs, fs_vars, watcher_vars, handler_vars, api_vars, history_vars,
                   sweeper_vars, observer_stopped, ns_vars>>

\* The observer thread, between two events, finds itself stopped and ends.
observer_exit ==
    /\ w_pc = "idle"
    /\ observer_stopped
    /\ w_pc' = "stopped"
    /\ UNCHANGED <<self_configs, fs_vars, event_queue, w_path, previous_size, stable_time,
                   handler_vars, api_vars, history_vars, sweeper_vars, main_vars,
                   ns_vars>>

Main == main_interrupt \/ main_join_api \/ main_join_delete \/ main_join_observer

Observer == Watcher \/ observer_exit

\* A writer of one image file, and the four threads of the program.
NextAll ==
    \/ \E sz \in Sizes : Write(Tracked, sz, "ds_brain")
    \/ Observer
    \/ Pipeline({Ok200})
    \/ Sweeper
    \/ Main

\* Every thread that can take a step goes on; a writer may stop, or go on for
\* ever.
FairSpec ==
    /\ Init
    /\ [][NextAll]_vars
    /\ WF_vars(Observer)
    /\ WF_vars(Pipeline({Ok200}))
    /\ WF_vars(Sweeper)
    /\ WF_vars(Main)

(***************************************************************************)
(* The observer thread and the api thread while files keep arriving: one   *)
(* image file is written once and left alone, another is written again and *)
(* again. Each thread goes on whenever it can again and again: a thread    *)
(* waiting for the lock gets it if it is free often enough.                *)
(***************************************************************************)
Other == "/d/s/2.DCM"

WriteOnce(f, sz) == f \notin exists /\ Write(f, sz, "ds_brain")

NextBusy ==
    \/ \E sz \in Sizes : WriteOnce(Tracked, sz)
    \/ \E sz \in Sizes : Write(Other, sz, "ds_brain")
    \/ Watcher
    \/ Pipeline({Ok200})

FairBusy ==
    /\ Init
    /\ [][NextBusy]_vars
    /\ SF_vars(Watcher)
    /\ SF_vars(Pipeline({Ok200}))

(***************************************************************************)
(* The same two threads when a file arrives with a created event only,     *)
(* while another file is written a few times and then left alone.          *)
(***************************************************************************)
Grow(f, sz) == sz > size[f] /\ Write(f, sz, "ds_brain")

NextCreated ==
    \/ \E sz \in Sizes : Create(Tracked, sz)
    \/ \E sz \in Sizes : Grow(Other, sz)
    \/ Watcher
    \/ Pipeline({Ok200})

FairCreated ==
    /\ Init
    /\ [][NextCreated]_vars
    /\ SF_vars(Watcher)
    /\ SF_vars(Pipeline({Ok200}))

(***************************************************************************)
(* normalize_string on its own: a string, and a variant of it that differs *)
(* in case and in characters that are no letters or digits.                *)
(***************************************************************************)
InputLetters == {"A", "a", "b", UpperEAcute}

InputOthers == {" ", "-"}

InputChars == InputLetters \cup {"7"} \cup InputOthers

Strings == UNION {[1..n -> InputChars] : n \in 0..MaxStrLen}

ExampleA == <<"C","h","e","s","t"," ","X","-","R","a","y","!">>

ExampleB == <<"c","h","e","s","t"," ","x"," ","r","a","y">>

\* str.swapcase() on one character
SwapCase(c) ==
    IF c \in Range(AsciiUpper) THEN LowerChar(c)
    ELSE IF c \in Range(AsciiLower)
         THEN AsciiUpper[CHOOSE i \in DOMAIN AsciiLower : AsciiLower[i] = c]
    ELSE IF c = UpperEAcute THEN LowerEAcute
    ELSE IF c = LowerEAcute THEN UpperEAcute
    ELSE c

\* The strings one change away from s: the case of one character changed, a
\* character that is no letter or digit put in, or one taken out.
Variants(s) ==
    {[s EXCEPT ![i] = SwapCase(s[i])] : i \in DOMAIN s}
    \cup {SubSeq(s, 1, i) \o <<c>> \o SubSeq(s, i + 1, Len(s)) :
            i \in 0..Len(s), c \in InputOthers}
    \cup {SubSeq(s, 1, i - 1) \o SubSeq(s, i + 1, Len(s)) :
            i \in {j \in DOMAIN s : s[j] \in InputOthers}}

InitNorm ==
    /\ exists = {}
    /\ dirs = Dirs
    /\ size = [f \in Files |-> 0]
    /\ content = [f \in Files |-> Corrupt]
    /\ mtime = [f \in Files |-> 0]
    /\ clock = 0
    /\ InitThreads
    /\ self_configs = configs
    /\ modified_files = {}
    /\ \E pair \in {<<s, s>> : s \in Strings} \cup {<<ExampleA, ExampleB>>} :
          /\ ns_s = pair[1]
          /\ ns_t = pair[2]
    /\ ns_key_s = <<>>
    /\ ns_key_t = <<>>
    /\ ns_key_key = <<>>
    /\ ns_pc = "input"

\* The variant is changed once more.
ns_vary(t) ==
    /\ ns_pc = "input"
    /\ t \in Variants(ns_t)
    /\ Len(t) <= MaxStrLen
    /\ ns_t' = t
    /\ UNCHANGED <<self_configs, fs_vars, watcher_vars, handler_vars, api_vars, history_vars,
                   sweeper_vars, main_vars, ns_s, ns_key_s, ns_key_t, ns_key_key, ns_pc>>

\* normalize_string is called on the string and on its variant.
ns_normalize ==
    /\ ns_pc = "input"
    /\ ns_key_s' = normalize_string(ns_s)
    /\ ns_key_t' = normalize_string(ns_t)
    /\ ns_pc' = "normalized"
    /\ UNCHANGED <<self_configs, fs_vars, watcher_vars, handler_vars, api_vars, history_vars,
                   sweeper_vars, main_vars, ns_s, ns_t, ns_key_key>>

\* normalize_string is called on a key it returned.
ns_renormalize ==
    /\ ns_pc = "normalized"
    /\ ns_key_key' = normalize_string(ns_key_t)
    /\ ns_pc' = "renormalized"
    /\ UNCHANGED <<self_configs, fs_vars, watcher_vars, handler_vars, api_vars, history_vars,
                   sweeper_vars, main_vars, ns_s, ns_t, ns_key_s, ns_key_t>>

NextNorm ==
    \/ \E t \in Variants(ns_t) : ns_vary(t)
    \/ ns_normalize
    \/ ns_renormalize

SpecNorm == InitNorm /\ [][NextNorm]_vars

(***************************************************************************)
(* The properties.                                                         *)
(***************************************************************************)
\* The rules whose normalized study_description equals the normalized sd.
Matching(sd) ==
    {i \in DOMAIN self_configs :
        normalize_string(self_configs[i].study_description) = normalize_string(sd)}

\* The rules a call of handle_dicom_file called send_to_api for.
Called(h) == {h.calls[k].config : k \in DOMAIN h.calls}

\* C1: within one stabilization episode the path is added to the set of
\* stabilized paths once: a handler that finds the file as it was when the
\* path was last added does not add the path again.
C1_AddedOncePerEpisode == enqueues <= 1

\* C2: a file written in one write episode, whose classification matches one
\* rule and whose endpoint answers 200, is POSTed once: no later drain cycle
\* issues a second POST.
C2_OnePostForOneWrite == episode = 1 => posts_ok <= 1

\* C3: for a drained file that was read, send_to_api is called for a rule if
\* and only if the rule's normalized pattern equals the file's normalized
\* classification, whatever the rule's watch_dir.
C3_EveryMatchingRuleTried ==
    handled.read_ok => Called(handled) = Matching(handled.study_description)

C3_Witness ==
    /\ handled.read_ok
    /\ handled.file_path = "/d/1.dcm"
    /\ Called(handled) = {1, 2}
    /\ configs[2].watch_dir = "/e"

\* C4: a delivery that fails does not suppress the deliveries to the matching
\* rules after it, nor the handling of the files left in the batch.
C4_FailureSuppressesNothing ==
    /\ p_pc # "crashed"
    /\ p_pc = "batch" => batch_handled \cup Range(files_to_process) = batch_taken
    /\ \A k \in DOMAIN handled.calls :
          handled.calls[k].level = "error" =>
             \A i \in Matching(handled.study_description) :
                i > handled.calls[k].config => i \in Called(handled)

C4_Witness ==
    /\ Len(handled.calls) = 2
    /\ handled.calls[1].response.raises
    /\ handled.calls[2].response.status_code = 404
    /\ files_to_process # <<>>

\* C5: a file whose metadata cannot be read is logged and skipped with no
\* delivery attempt, the files left in the batch are still handled, and the
\* api thread goes on.
C5_UnreadableSkipped ==
    /\ p_pc \in {"loop", "lock", "take", "clear", "batch", "done"}
    /\ (handled.file_path # NoPath /\ ~handled.read_ok) =>
          /\ handled.calls = <<>>
          /\ handled.log = <<"Failed to process">>
          /\ ~handled.raised
          /\ p_pc = "batch"
          /\ handled.file_path \notin Range(files_to_process)
          /\ batch_taken \ batch_handled = Range(files_to_process)

C5_Witness ==
    /\ handled.file_path # NoPath
    /\ ~handled.read_ok
    /\ handled.file_path \in exists
    /\ files_to_process # <<>>

\* C6: at the end of a sweep every matching file older than max_age_days is
\* gone, but for a file whose own removal failed, and the sweeper has removed
\* no file that is not of the target extension or not older than max_age_days.
C6_SweepDeletesExpired ==
    /\ \A r \in s_log : r.op = "deleted" => IsDcmPath(r.path) /\ r.age > max_age_days
    /\ s_pc = "wait" =>
          \A f \in exists :
             (IsDcmPath(f) /\ is_old(s_now, mtime[f])) =>
                [op |-> "delete_error", path |-> f, age |-> 0] \in s_log

\* The sweeper removes file f in this step.
SweeperRemoves(f) ==
    /\ f \in exists
    /\ \E r \in s_log' \ s_log : r.op = "deleted" /\ r.path = f

\* C7: when the sweeper removes a file and leaves its directory empty it
\* removes the directory, a watched root too; and a directory that goes holds
\* no entry.
C7_PrunesEmptiedOnly ==
    [][ /\ \A d \in dirs \ dirs' : FilesIn(d)' = {} /\ SubdirsIn(d)' = {}
        /\ \A f \in Files :
              (SweeperRemoves(f) /\ FilesIn(dirname(f))' = {} /\ SubdirsIn(dirname(f))' = {})
                 => dirname(f) \notin dirs' ]_vars

C7_Witness ==
    /\ [op |-> "rmdir", path |-> "/d", age |-> 0] \in s_log
    /\ "/d" \notin dirs
    /\ "/d" \in watch_dirs

\* C8: after the interrupt the observer thread, the api thread and the delete
\* thread end and are joined and main exits, and the api thread ends with no
\* file of its batch left.
C8_ShutdownCompletes ==
    /\ (m_pc # "run") ~> (m_pc = "exit")
    /\ [](p_pc = "done" => files_to_process = <<>>)

\* C9: a call of send_to_api logs a success if and only if the answer has
\* status 200, and logs an error otherwise; a handled file has one call for
\* each rule at most and is not handled again in the cycle.
C9_SuccessIffStatus200 ==
    /\ \A k \in DOMAIN handled.calls :
          /\ handled.calls[k].level \in {"info", "error"}
          /\ handled.calls[k].level = "info"
                <=> (~handled.calls[k].response.raises
                     /\ handled.calls[k].response.status_code = 200)
    /\ \A k1, k2 \in DOMAIN handled.calls :
          k1 # k2 => handled.calls[k1].config # handled.calls[k2].config
    /\ handled.file_path # NoPath => handled.file_path \notin Range(files_to_process)

C9_Witness ==
    /\ Len(handled.calls) = 2
    /\ handled.calls[1].response.status_code = 404
    /\ handled.calls[1].level = "error"
    /\ handled.calls[2].response = Ok200
    /\ handled.calls[2].level = "info"

\* C10: a string and a variant of it that differs in case and in characters
\* that are no letters or digits have the same key, and normalize_string
\* gives a key back unchanged.
C10_NormalizeIdempotentInsensitive ==
    /\ ns_pc \in {"normalized", "renormalized"} => ns_key_s = ns_key_t
    /\ ns_pc = "renormalized" => ns_key_key = ns_key_t

C10_Witness ==
    /\ ns_pc = "renormalized"
    /\ ns_s = ExampleA
    /\ ns_t = ExampleB
    /\ ns_key_key = <<"c","h","e","s","t","x","r","a","y">>

\* C11: the drain takes the set and clears it as one step under the lock: a
\* path leaves the set only into the batch taken, so none is lost between the
\* copy and the clear, and the set is empty when the drain is done.
C11_DrainAtomic ==
    [][ /\ modified_files \subseteq modified_files' \cup Range(files_to_process')
        /\ (p_pc = "clear" /\ p_pc' = "batch") =>
              /\ modified_files' = {}
              /\ Range(files_to_process') = modified_files ]_vars

C11_Witness ==
    /\ p_pc = "batch"
    /\ batch_handled = {}
    /\ batch_taken = {"/d/1.dcm"}
    /\ modified_files = {}
    /\ w_pc = "lock"
    /\ w_path = "/d/s/2.DCM"

\* C12: a path added to the set of stabilized paths is taken by a drain and
\* handed to handle_dicom_file, whatever the observer thread is doing.
C12_AddedIsDrained ==
    \A f \in DcmFiles : (f \in modified_files) ~> (f \in batch_handled)

\* C13: the api thread holds the lock only while it copies and clears the
\* set, never while it reads or sends a file of the batch.
C13_LockFreeWhileDispatching ==
    /\ p_pc = "batch" => lock # "pipeline"
    /\ lock = "pipeline" => p_pc \in {"take", "clear"}

C13_Witness ==
    /\ p_pc = "batch"
    /\ batch_handled # {}
    /\ files_to_process # <<>>
    /\ lock = "watcher"
    /\ w_pc = "poll"

\* The observer thread, in is_file_stable, reads the size of a file that exists.
PollStep ==
    /\ w_pc = "poll"
    /\ w_path \in exists
    /\ <<w_pc, previous_size, stable_time>>' # <<w_pc, previous_size, stable_time>>

\* C14: with stable_duration > 0 a poll that reads another size than the last
\* one read sets stable_time to 0 and records the size, a poll that reads the
\* same size adds check_interval, and the path is added only by a poll that
\* brings stable_time of an unchanged size to stable_duration or more.
C14_AddedOnlyWhenStable ==
    [][ stable_duration > 0 =>
          /\ PollStep =>
                IF size[w_path] # previous_size
                THEN /\ stable_time' = 0
                     /\ previous_size' = size[w_path]
                     /\ w_pc' = "poll"
                ELSE IF stable_time + check_interval < stable_duration
                THEN /\ stable_time' = stable_time + check_interval
                     /\ previous_size' = previous_size
                     /\ w_pc' = "poll"
                ELSE /\ w_pc' = "idle"
                     /\ w_path \in modified_files'
          /\ (modified_files' \ modified_files) # {} =>
                /\ modified_files' \ modified_files = {w_path}
                /\ PollStep
                /\ size[w_path] = previous_size
                /\ stable_time + check_interval >= stable_duration ]_vars

C14_Witness ==
    /\ Tracked \in modified_files
    /\ enqueues = 1
    /\ size[Tracked] = 2
    /\ w_pc = "poll"
    /\ w_path = Other
    /\ stable_time > 0

\* C15: a file that was written once and whose size no longer changes is
\* added to the set of stabilized paths, also while the size of another file
\* keeps changing.
C15_StableFileIsAdded == (Tracked \in exists) ~> (enqueues > 0)

\* C16: when the file being polled disappears before it is stable, no
\* exception leaves on_modified, the lock is released, and the observer
\* thread goes on to the events that follow.
C16_VanishedFileDropped ==
    /\ w_pc # "dead"
    /\ w_pc \in {"idle", "dead"} => lock # "watcher"

\* C17: an image file the observer reports with a created event is tracked
\* and, its size staying as it is, is added to the set of stabilized paths.
C17_CreatedFileIsAdded ==
    \A f \in DcmFiles :
        (CreatedEvent(f) \in Range(event_queue)) ~> (f \in modified_files)

\* C18: an error on one file of a sweep is logged and the sweep goes on:
\* when the sweep ends, every other matching file older than max_age_days is
\* gone, but for a file whose own removal failed.
C18_SweepErrorIsolated ==
    s_pc = "wait" =>
       \A r \in s_log :
          r.op \in {"sweep_error", "delete_error"} =>
             \A f \in exists \ {r.path} :
                (IsDcmPath(f) /\ is_old(s_now, mtime[f])) =>
                   [op |-> "delete_error", path |-> f, age |-> 0] \in s_log

\* C19: a directory goes only in the step that removes a file lying directly
\* in it, one directory a step, and the directory above it stays, empty or
\* not, in this sweep and in the sweeps that follow.
C19_PrunesOneLevel ==
    [][ /\ Cardinality(dirs \ dirs') <= 1
        /\ \A d \in dirs \ dirs' :
              /\ \E f \in Files : SweeperRemoves(f) /\ dirname(f) = d
              /\ dirname(d) \in dirs => dirname(d) \in dirs' ]_vars

C19_Witness ==
    /\ s_pc = "wait"
    /\ [op |-> "rmdir", path |-> "/d/s", age |-> 0] \in s_log
    /\ "/d/s" \notin dirs
    /\ "/d" \in dirs
    /\ FilesIn("/d") = {}
    /\ SubdirsIn("/d") = {}

\* The rules whose study_description normalizes to the empty string.
BlankRules ==
    {i \in DOMAIN self_configs : normalize_string(self_configs[i].study_description) = <<>>}

\* C20: a file with no StudyDescription has the empty key, and a file whose
\* key is empty is sent to the rules whose pattern normalizes to the empty
\* string and to no other: to none when there is no such rule, with no error.
C20_EmptyKeyDispatch ==
    handled.read_ok =>
       /\ (handled.file_path \in exists /\ content[handled.file_path] = "ds_absent")
             => handled.study_description = <<>>
       /\ normalize_string(handled.study_description) = <<>> =>
             /\ Called(handled) = BlankRules
             /\ Len(handled.calls) = Cardinality(BlankRules)
             /\ handled.log = <<>>
             /\ ~handled.raised
             /\ p_pc # "crashed"

C20_Witness ==
    /\ handled.read_ok
    /\ handled.file_path \in exists
    /\ content[handled.file_path] = "ds_absent"
    /\ self_configs = configs_blank
    /\ Called(handled) = {4}

C20_WitnessNoRule ==
    /\ handled.read_ok
    /\ handled.file_path \in exists
    /\ content[handled.file_path] = "ds_blank"
    /\ self_configs = configs
    /\ handled.calls = <<>>

====
